---- MODULE Spec2Model ----
(***************************************************************************)
(* A model of the concurrency and session-management core of eRPC:         *)
(*   - the Nexus background worker loop (nexus_bg_thread.cc),              *)
(*   - the Rpc endpoint's constructor, destructor, bury_session_st and     *)
(*     handle_session_management_st (rpc.cc),                              *)
(*   - the disconnect request/response handlers                            *)
(*     (rpc_disconnect_handlers.cc),                                       *)
(*   - the TlsRegistry (tls_registry.h).                                   *)
(* Each part has its own specification over the shared variables:          *)
(* SpecBg / SpecBgFair, SpecSm, SpecTls and SpecRpc.                       *)
(***************************************************************************)
EXTENDS Integers, Sequences, FiniteSets, TLC

VARIABLES
  \* ---- background worker (nexus_bg_thread.cc) ----
  bg_kill_switch,   \* *bg_thread_ctx->bg_kill_switch
  bg_req_list,      \* bg_thread_ctx->bg_req_list : MtList<BgWorkItem>
  bg_pc,            \* position of the worker in bg_thread_func
  bg_it,            \* range-for iterator: index of the next element
  bg_end,           \* range-for end(): evaluated once when the loop starts
  bg_ndrains,       \* number of locked sections the worker has entered
  inv_log,          \* callbacks invoked so far: <<[id, wi_type, drain, call]>>
  rx_buried,        \* items whose sslot rx_msgbuf the core has buried
  prod_pc,          \* position of each producer inside MtList push
  prod_item,        \* the BgWorkItem a producer is pushing
  next_item,        \* number of work items created so far, plus one
  \* ---- session management of one Rpc (rpc.cc, rpc_disconnect_handlers.cc) ----
  sm_pkt_list,      \* nexus_hook.sm_pkt_list : MtList<SessionMgmtPkt *>
  lsn_pc,           \* position of the Nexus listener thread inside push
  lsn_pkt,          \* the packet the listener is pushing
  next_pkt,         \* number of packets received so far, plus one
  rpc_pc,           \* position of the creator thread
  sm_it,            \* range-for iterator of handle_session_management_st
  sm_end,           \* its end(), evaluated once when the loop starts
  rpc,              \* the Rpc object: session_vec, the sessions it points
                    \* to, mgmt_retryq, and what it has sent and called
  sm_handled,       \* <<[id, handler]>>: handler calls made by the dispatch
  sm_freed,         \* <<id>>: packets passed to free()
  \* ---- TlsRegistry (tls_registry.h) ----
  cur_etid,         \* TlsRegistry::cur_etid, the atomic counter
  tls_pc,           \* position of each thread inside TlsRegistry::init
  tls_tmp,          \* the value a thread's fetch-and-add returned
  tiny_tid,         \* the thread-local cell of each thread
  \* ---- Rpc construction and destruction (rpc.cc) ----
  reg_hooks,        \* the Nexus hook table: RpcId -> Rpc object, or nullptr
  objs,             \* the Rpc objects
  thr_pc,           \* position of each application thread
  thr_obj,          \* the Rpc object a thread is constructing or destroying
  thr_loop,         \* the Rpc whose event loop a thread is inside, or nullptr
  exited,           \* the process has terminated: exit(-1) or a crash
  kDatapathChecks,  \* the build's kDatapathChecks
  ctor_log,         \* constructor calls that have returned or thrown
  \* ---- a server session whose requests run in the background ----
  q_disc            \* the client's disconnect request: not sent, sent, handled

bgVars == <<bg_kill_switch, bg_req_list, bg_pc, bg_it, bg_end, bg_ndrains,
            inv_log, rx_buried, prod_pc, prod_item, next_item>>

smVars == <<sm_pkt_list, lsn_pc, lsn_pkt, next_pkt, rpc_pc, sm_it, sm_end,
            rpc, sm_handled, sm_freed>>

tlsVars == <<cur_etid, tls_pc, tls_tmp, tiny_tid>>

rpcVars == <<reg_hooks, objs, thr_pc, thr_obj, thr_loop, exited,
             kDatapathChecks, ctor_log>>

qVars == <<q_disc>>

vars == <<bgVars, smVars, tlsVars, rpcVars, qVars>>

otherThanBg == <<smVars, tlsVars, rpcVars, qVars>>

otherThanSm == <<bgVars, tlsVars, rpcVars, qVars>>

otherThanTls == <<bgVars, smVars, rpcVars, qVars>>

otherThanRpc == <<bgVars, smVars, tlsVars, qVars>>

-----------------------------------------------------------------------------
(* Bounds of the model *)

NumProducers == 2
MaxItems == 3

MaxPkts == 3
MaxSessions == 2

NumTlsThreads == 3

NumAppThreads == 2
MaxRpcObjs == 2

Producers == 1..NumProducers
ItemIds == 1..MaxItems
PktIds == 1..MaxPkts
TlsThreads == 1..NumTlsThreads
AppThreads == 1..NumAppThreads
RpcObjs == 1..MaxRpcObjs

-----------------------------------------------------------------------------
(* MtList<T>: a vector, a size field and a mutex *)

MtListEmpty == [list |-> <<>>, size |-> 0, locked |-> FALSE]

MtLock(l) == [l EXCEPT !.locked = TRUE]

MtUnlock(l) == [l EXCEPT !.locked = FALSE]

MtPushBack(l, x) == [l EXCEPT !.list = Append(@, x)]

MtIncrSize(l) == [l EXCEPT !.size = @ + 1]

MtLockedClear(l) == [l EXCEPT !.list = <<>>, !.size = 0]

-----------------------------------------------------------------------------
(* BgWorkItem *)

BgWorkItemTypes == {"kReq", "kResp"}

BgWorkItem(id, t) == [id |-> id, wi_type |-> t]

NoItem == [id |-> 0, wi_type |-> "none"]

-----------------------------------------------------------------------------
(* Session management: packets, endpoints, sessions *)

nullptr == 0

kSessionReqWindow == 2

SSlots == 1..kSessionReqWindow

ThisHostname == "hostA"

ThisRpcId == 7

RemoteHostname == "hostB"

RemoteRpcId == 9

kInvalidSessionNum == 65535

\* The endpoint of session number sn of this Rpc, and of the peer Rpc.
ThisEp(sn) == [hostname |-> ThisHostname, rpc_id |-> ThisRpcId,
               session_num |-> sn]

RemoteEp(sn) == [hostname |-> RemoteHostname, rpc_id |-> RemoteRpcId,
                 session_num |-> sn]

SessionNums == 0..(MaxSessions - 1)

SmErrTypes == {"kNoError", "kTooManySessions"}

\* The datagrams the listener may receive for this Rpc. The peer's session
\* number is 0; the local one is any number below MaxSessions.
SmPktUniverse ==
  {[pkt_type |-> "kConnectReq", err_type |-> "kNoError",
    client |-> RemoteEp(0), server |-> ThisEp(kInvalidSessionNum)]}
  \cup {[pkt_type |-> "kConnectResp", err_type |-> e,
         client |-> ThisEp(sn), server |-> RemoteEp(0)] :
          sn \in SessionNums, e \in SmErrTypes}
  \cup {[pkt_type |-> "kDisconnectReq", err_type |-> "kNoError",
         client |-> RemoteEp(0), server |-> ThisEp(sn)] : sn \in SessionNums}
  \cup {[pkt_type |-> "kDisconnectResp", err_type |-> "kNoError",
         client |-> ThisEp(sn), server |-> RemoteEp(0)] : sn \in SessionNums}

NoPkt == [id |-> 0, pkt |-> [pkt_type |-> "none"]]

\* An idle SSlot: no rx_msgbuf, no tx_msgbuf, its pre_resp_msgbuf allocated.
IdleSSlot == [rx_msgbuf_null |-> TRUE, tx_msgbuf_null |-> TRUE,
              tx_pkts_queued |-> 0, tx_num_pkts |-> 0, pre_resp_freed |-> 0]

NewSession(role, state, sn, client, server, cbdis) ==
  [role |-> role, state |-> state, local_session_num |-> sn,
   client |-> client, server |-> server, sm_callbacks_disabled |-> cbdis,
   sslot_arr |-> [i \in SSlots |-> IdleSSlot], deleted |-> FALSE]

InitRpc == [session_vec |-> <<>>, sessions |-> <<>>, mgmt_retryq |-> {},
            sent |-> <<>>, cb_log |-> <<>>, bury_log |-> <<>>,
            op_log |-> <<>>, assert_failed |-> FALSE]

\* A failed assert(): the process aborts.
AssertFail(R) == [R EXCEPT !.assert_failed = TRUE]

mgmt_retryq_contains_st(R, a) == a \in R.mgmt_retryq

\* The operations of the Rpc are recorded in op_log in the order in which
\* they are executed.
Logged(R, op, arg) == [R EXCEPT !.op_log = Append(@, [op |-> op, arg |-> arg])]

mgmt_retryq_remove_st(R, a) ==
  Logged([R EXCEPT !.mgmt_retryq = @ \ {a}], "retryq_remove", a)

\* session->state = st;
SetState(R, a, st) == Logged([R EXCEPT !.sessions[a].state = st], st, a)

mgmt_retryq_add_st(R, a) == [R EXCEPT !.mgmt_retryq = @ \cup {a}]

\* session_mgmt_handler(session_num, event, err, context)
session_mgmt_handler(R, sn, event, err) ==
  Logged([R EXCEPT !.cb_log = Append(@, [session_num |-> sn, event |-> event,
                                         err_type |-> err])],
         "callback", sn)

\* SessionMgmtPkt::send_resp_mut: turn the request into its response in
\* place, set err_type, and send it to the client.
SmRespType(t) == IF t = "kConnectReq" THEN "kConnectResp"
                 ELSE IF t = "kDisconnectReq" THEN "kDisconnectResp"
                 ELSE t

SmRespOf(pkt, err) ==
  [pkt EXCEPT !.pkt_type = SmRespType(pkt.pkt_type), !.err_type = err]

send_resp_mut(R, pkt, err) ==
  Logged([R EXCEPT !.sent = Append(@, SmRespOf(pkt, err))],
         "send", pkt.server.session_num)

-----------------------------------------------------------------------------
(* Rpc::bury_session_st *)

\* A bury that leaves the entry of session_vec in place.
bury_session_st_KeepSlot(R, a) ==
  IF a = nullptr THEN AssertFail(R)
  ELSE IF R.sessions[a].role = "kClient" /\ mgmt_retryq_contains_st(R, a)
  THEN Logged(AssertFail(R), "bury_precondition_failed", a)
  ELSE
    LET session == R.sessions[a]
        freed == [i \in SSlots |->
                   [session.sslot_arr[i] EXCEPT !.pre_resp_freed = @ + 1]]
    IN [R EXCEPT !.sessions[a].sslot_arr = freed,
                 !.sessions[a].deleted = TRUE,
                 !.bury_log = Append(@, a),
                 !.op_log = Append(@, [op |-> "bury", arg |-> a])]

bury_session_st(R, a) ==
  IF a = nullptr THEN AssertFail(R)
  ELSE IF R.sessions[a].role = "kClient" /\ mgmt_retryq_contains_st(R, a)
  THEN Logged(AssertFail(R), "bury_precondition_failed", a)
  ELSE
    LET session == R.sessions[a]
        freed == [i \in SSlots |->
                   [session.sslot_arr[i] EXCEPT !.pre_resp_freed = @ + 1]]
    IN [R EXCEPT !.sessions[a].sslot_arr = freed,
                 !.session_vec[session.local_session_num + 1] = nullptr,
                 !.sessions[a].deleted = TRUE,
                 !.bury_log = Append(@, a),
                 !.op_log = Append(@, [op |-> "bury", arg |-> a])]

-----------------------------------------------------------------------------
(* Rpc::handle_disconnect_req_st *)

SSlotQuiescent(sslot) ==
  /\ sslot.rx_msgbuf_null
  /\ (~sslot.tx_msgbuf_null => sslot.tx_pkts_queued = sslot.tx_num_pkts)

\* A handler that drops a duplicate disconnect request without a response.
handle_disconnect_req_st_DropDuplicate(R, sm_pkt) ==
  IF \/ sm_pkt.pkt_type # "kDisconnectReq"
     \/ sm_pkt.server.rpc_id # ThisRpcId
     \/ sm_pkt.server.hostname # ThisHostname
  THEN AssertFail(R)
  ELSE
    LET session_num == sm_pkt.server.session_num IN
    IF ~(session_num < Len(R.session_vec)) THEN AssertFail(R)
    ELSE IF R.session_vec[session_num + 1] = nullptr
    THEN R
    ELSE
      LET a == R.session_vec[session_num + 1]
          session == R.sessions[a]
      IN IF \/ session.role # "kServer"
            \/ session.server # sm_pkt.server
            \/ session.client # sm_pkt.client
         THEN AssertFail(R)
         ELSE IF \E i \in SSlots : ~SSlotQuiescent(session.sslot_arr[i])
         THEN AssertFail(R)
         ELSE bury_session_st(send_resp_mut(R, sm_pkt, "kNoError"), a)

\* A handler that buries the session before it sends the response.
handle_disconnect_req_st_BuryBeforeSend(R, sm_pkt) ==
  IF \/ sm_pkt.pkt_type # "kDisconnectReq"
     \/ sm_pkt.server.rpc_id # ThisRpcId
     \/ sm_pkt.server.hostname # ThisHostname
  THEN AssertFail(R)
  ELSE
    LET session_num == sm_pkt.server.session_num IN
    IF ~(session_num < Len(R.session_vec)) THEN AssertFail(R)
    ELSE IF R.session_vec[session_num + 1] = nullptr
    THEN send_resp_mut(R, sm_pkt, "kNoError")
    ELSE
      LET a == R.session_vec[session_num + 1]
          session == R.sessions[a]
      IN IF \/ session.role # "kServer"
            \/ session.server # sm_pkt.server
            \/ session.client # sm_pkt.client
         THEN AssertFail(R)
         ELSE IF \E i \in SSlots : ~SSlotQuiescent(session.sslot_arr[i])
         THEN AssertFail(R)
         ELSE send_resp_mut(bury_session_st(R, a), sm_pkt, "kNoError")

handle_disconnect_req_st(R, sm_pkt) ==
  IF \/ sm_pkt.pkt_type # "kDisconnectReq"
     \/ sm_pkt.server.rpc_id # ThisRpcId
     \/ sm_pkt.server.hostname # ThisHostname
  THEN AssertFail(R)
  ELSE
    LET session_num == sm_pkt.server.session_num IN
    IF ~(session_num < Len(R.session_vec)) THEN AssertFail(R)
    ELSE IF R.session_vec[session_num + 1] = nullptr
    THEN send_resp_mut(R, sm_pkt, "kNoError")
    ELSE
      LET a == R.session_vec[session_num + 1]
          session == R.sessions[a]
      IN IF \/ session.role # "kServer"
            \/ session.server # sm_pkt.server
            \/ session.client # sm_pkt.client
         THEN AssertFail(R)
         ELSE IF \E i \in SSlots : ~SSlotQuiescent(session.sslot_arr[i])
         THEN AssertFail(R)
         ELSE bury_session_st(send_resp_mut(R, sm_pkt, "kNoError"), a)

-----------------------------------------------------------------------------
(* Rpc::handle_disconnect_resp_st *)

\* A handler that invokes the callback for a duplicate disconnect response.
handle_disconnect_resp_st_CallbackOnEmpty(R, sm_pkt) ==
  IF \/ sm_pkt.pkt_type # "kDisconnectResp"
     \/ sm_pkt.err_type \notin SmErrTypes
  THEN AssertFail(R)
  ELSE
    LET session_num == sm_pkt.client.session_num IN
    IF ~(session_num < Len(R.session_vec)) THEN AssertFail(R)
    ELSE
      LET a == R.session_vec[session_num + 1] IN
      IF a = nullptr
      THEN IF mgmt_retryq_contains_st(R, a) THEN AssertFail(R)
           ELSE session_mgmt_handler(R, session_num, "kDisconnected",
                                     "kNoError")
      ELSE
        LET session == R.sessions[a] IN
        IF session.state # "kDisconnectInProgress" THEN AssertFail(R)
        ELSE IF ~mgmt_retryq_contains_st(R, a) THEN AssertFail(R)
        ELSE
          LET R1 == mgmt_retryq_remove_st(R, a) IN
          IF \/ session.server # sm_pkt.server
             \/ session.client # sm_pkt.client
          THEN AssertFail(R1)
          ELSE IF sm_pkt.err_type # "kNoError" THEN AssertFail(R1)
          ELSE
            LET R2 == SetState(R1, a, "kDisconnected")
                R3 == IF ~session.sm_callbacks_disabled
                      THEN session_mgmt_handler(R2, session.local_session_num,
                                                "kDisconnected", "kNoError")
                      ELSE R2
            IN bury_session_st(R3, a)

\* A handler that marks the session connected.
handle_disconnect_resp_st_MarkConnected(R, sm_pkt) ==
  IF \/ sm_pkt.pkt_type # "kDisconnectResp"
     \/ sm_pkt.err_type \notin SmErrTypes
  THEN AssertFail(R)
  ELSE
    LET session_num == sm_pkt.client.session_num IN
    IF ~(session_num < Len(R.session_vec)) THEN AssertFail(R)
    ELSE
      LET a == R.session_vec[session_num + 1] IN
      IF a = nullptr
      THEN IF mgmt_retryq_contains_st(R, a) THEN AssertFail(R) ELSE R
      ELSE
        LET session == R.sessions[a] IN
        IF session.state # "kDisconnectInProgress" THEN AssertFail(R)
        ELSE IF ~mgmt_retryq_contains_st(R, a) THEN AssertFail(R)
        ELSE
          LET R1 == mgmt_retryq_remove_st(R, a) IN
          IF \/ session.server # sm_pkt.server
             \/ session.client # sm_pkt.client
          THEN AssertFail(R1)
          ELSE IF sm_pkt.err_type # "kNoError" THEN AssertFail(R1)
          ELSE
            LET R2 == SetState(R1, a, "kConnected")
                R3 == IF ~session.sm_callbacks_disabled
                      THEN session_mgmt_handler(R2, session.local_session_num,
                                                "kDisconnected", "kNoError")
                      ELSE R2
            IN bury_session_st(R3, a)

\* A variant that buries the session only on the callback path.
handle_disconnect_resp_st_BuryInsideIf(R, sm_pkt) ==
  IF \/ sm_pkt.pkt_type # "kDisconnectResp"
     \/ sm_pkt.err_type \notin SmErrTypes
  THEN AssertFail(R)
  ELSE
    LET session_num == sm_pkt.client.session_num IN
    IF ~(session_num < Len(R.session_vec)) THEN AssertFail(R)
    ELSE
      LET a == R.session_vec[session_num + 1] IN
      IF a = nullptr
      THEN IF mgmt_retryq_contains_st(R, a) THEN AssertFail(R) ELSE R
      ELSE
        LET session == R.sessions[a] IN
        IF session.state # "kDisconnectInProgress" THEN AssertFail(R)
        ELSE IF ~mgmt_retryq_contains_st(R, a) THEN AssertFail(R)
        ELSE
          LET R1 == mgmt_retryq_remove_st(R, a) IN
          IF \/ session.server # sm_pkt.server
             \/ session.client # sm_pkt.client
          THEN AssertFail(R1)
          ELSE IF sm_pkt.err_type # "kNoError" THEN AssertFail(R1)
          ELSE
            LET R2 == SetState(R1, a, "kDisconnected")
            IN IF ~session.sm_callbacks_disabled
               THEN bury_session_st(
                      session_mgmt_handler(R2, session.local_session_num,
                                           "kDisconnected", "kNoError"), a)
               ELSE R2

\* A variant that leaves the session in the retry queue.
handle_disconnect_resp_st_NoRetryqRemove(R, sm_pkt) ==
  IF \/ sm_pkt.pkt_type # "kDisconnectResp"
     \/ sm_pkt.err_type \notin SmErrTypes
  THEN AssertFail(R)
  ELSE
    LET session_num == sm_pkt.client.session_num IN
    IF ~(session_num < Len(R.session_vec)) THEN AssertFail(R)
    ELSE
      LET a == R.session_vec[session_num + 1] IN
      IF a = nullptr
      THEN IF mgmt_retryq_contains_st(R, a) THEN AssertFail(R) ELSE R
      ELSE
        LET session == R.sessions[a] IN
        IF session.state # "kDisconnectInProgress" THEN AssertFail(R)
        ELSE IF ~mgmt_retryq_contains_st(R, a) THEN AssertFail(R)
        ELSE
          LET R1 == R IN
          IF \/ session.server # sm_pkt.server
             \/ session.client # sm_pkt.client
          THEN AssertFail(R1)
          ELSE IF sm_pkt.err_type # "kNoError" THEN AssertFail(R1)
          ELSE
            LET R2 == SetState(R1, a, "kDisconnected")
                R3 == IF ~session.sm_callbacks_disabled
                      THEN session_mgmt_handler(R2, session.local_session_num,
                                                "kDisconnected", "kNoError")
                      ELSE R2
            IN bury_session_st(R3, a)

handle_disconnect_resp_st(R, sm_pkt) ==
  IF \/ sm_pkt.pkt_type # "kDisconnectResp"
     \/ sm_pkt.err_type \notin SmErrTypes
  THEN AssertFail(R)
  ELSE
    LET session_num == sm_pkt.client.session_num IN
    IF ~(session_num < Len(R.session_vec)) THEN AssertFail(R)
    ELSE
      LET a == R.session_vec[session_num + 1] IN
      IF a = nullptr
      THEN IF mgmt_retryq_contains_st(R, a) THEN AssertFail(R) ELSE R
      ELSE
        LET session == R.sessions[a] IN
        IF session.state # "kDisconnectInProgress" THEN AssertFail(R)
        ELSE IF ~mgmt_retryq_contains_st(R, a) THEN AssertFail(R)
        ELSE
          LET R1 == mgmt_retryq_remove_st(R, a) IN
          IF \/ session.server # sm_pkt.server
             \/ session.client # sm_pkt.client
          THEN AssertFail(R1)
          ELSE IF sm_pkt.err_type # "kNoError" THEN AssertFail(R1)
          ELSE
            LET R2 == SetState(R1, a, "kDisconnected")
                R3 == IF ~session.sm_callbacks_disabled
                      THEN session_mgmt_handler(R2, session.local_session_num,
                                                "kDisconnected", "kNoError")
                      ELSE R2
            IN bury_session_st(R3, a)

-----------------------------------------------------------------------------
(* The connect handlers and the session API of the Rpc *)

\* Rpc::handle_connect_req_st: a duplicate request gets the same response;
\* otherwise a server session is allocated, or the request is refused.
handle_connect_req_st(R, sm_pkt) ==
  LET dup == {a \in DOMAIN R.sessions :
                /\ ~R.sessions[a].deleted
                /\ R.sessions[a].role = "kServer"
                /\ R.sessions[a].client = sm_pkt.client}
  IN IF dup # {}
     THEN LET a == CHOOSE x \in dup : TRUE IN
          send_resp_mut(R, [sm_pkt EXCEPT !.server = R.sessions[a].server],
                        "kNoError")
     ELSE IF Len(R.session_vec) >= MaxSessions
     THEN send_resp_mut(R, sm_pkt, "kTooManySessions")
     ELSE
       LET sn == Len(R.session_vec)
           a == Len(R.sessions) + 1
           session == NewSession("kServer", "kConnected", sn, sm_pkt.client,
                                 ThisEp(sn), FALSE)
           R1 == [R EXCEPT !.sessions = Append(@, session),
                           !.session_vec = Append(@, a)]
       IN send_resp_mut(R1, [sm_pkt EXCEPT !.server = ThisEp(sn)], "kNoError")

\* Rpc::handle_connect_resp_st
handle_connect_resp_st(R, sm_pkt) ==
  LET session_num == sm_pkt.client.session_num IN
  IF ~(session_num < Len(R.session_vec)) THEN R
  ELSE
    LET a == R.session_vec[session_num + 1] IN
    IF a = nullptr THEN R
    ELSE IF R.sessions[a].state # "kConnectInProgress" THEN R
    ELSE
      LET R1 == mgmt_retryq_remove_st(R, a) IN
      IF sm_pkt.err_type = "kNoError"
      THEN session_mgmt_handler(
             [R1 EXCEPT !.sessions[a].state = "kConnected",
                        !.sessions[a].server = sm_pkt.server],
             session_num, "kConnected", "kNoError")
      ELSE bury_session_st(
             session_mgmt_handler(
               [R1 EXCEPT !.sessions[a].state = "kDisconnected"],
               session_num, "kConnectFailed", sm_pkt.err_type),
             a)

\* Rpc::create_session: a client session in kConnectInProgress whose connect
\* request is in the retry queue.
create_session(R, cbdis) ==
  LET sn == Len(R.session_vec)
      a == Len(R.sessions) + 1
      session == NewSession("kClient", "kConnectInProgress", sn, ThisEp(sn),
                            RemoteEp(kInvalidSessionNum), cbdis)
  IN mgmt_retryq_add_st([R EXCEPT !.sessions = Append(@, session),
                                  !.session_vec = Append(@, a)], a)

\* Rpc::destroy_session: a connected client session starts its disconnect.
destroy_session(R, sn) ==
  LET a == R.session_vec[sn + 1] IN
  mgmt_retryq_add_st(
    [R EXCEPT !.sessions[a].state = "kDisconnectInProgress"], a)

CanDestroySession(R, sn) ==
  /\ sn < Len(R.session_vec)
  /\ R.session_vec[sn + 1] # nullptr
  /\ R.sessions[R.session_vec[sn + 1]].role = "kClient"
  /\ R.sessions[R.session_vec[sn + 1]].state = "kConnected"

-----------------------------------------------------------------------------
(* The Nexus listener thread: appends a received packet to the hook's list *)

LsnLock ==
  /\ rpc_pc # "abort"
  /\ lsn_pc = "idle"
  /\ next_pkt <= MaxPkts
  /\ ~sm_pkt_list.locked
  /\ \E pkt \in SmPktUniverse :
       lsn_pkt' = [id |-> next_pkt, pkt |-> pkt]
  /\ next_pkt' = next_pkt + 1
  /\ sm_pkt_list' = MtLock(sm_pkt_list)
  /\ lsn_pc' = "push_back"
  /\ UNCHANGED otherThanSm
  /\ UNCHANGED <<rpc_pc, sm_it, sm_end, rpc, sm_handled, sm_freed>>

LsnPushBack ==
  /\ rpc_pc # "abort"
  /\ lsn_pc = "push_back"
  /\ sm_pkt_list' = MtPushBack(sm_pkt_list, lsn_pkt)
  /\ lsn_pc' = "size"
  /\ UNCHANGED otherThanSm
  /\ UNCHANGED <<lsn_pkt, next_pkt, rpc_pc, sm_it, sm_end, rpc, sm_handled,
                 sm_freed>>

LsnSize ==
  /\ rpc_pc # "abort"
  /\ lsn_pc = "size"
  /\ sm_pkt_list' = MtIncrSize(sm_pkt_list)
  /\ lsn_pc' = "unlock"
  /\ UNCHANGED otherThanSm
  /\ UNCHANGED <<lsn_pkt, next_pkt, rpc_pc, sm_it, sm_end, rpc, sm_handled,
                 sm_freed>>

LsnUnlock ==
  /\ rpc_pc # "abort"
  /\ lsn_pc = "unlock"
  /\ sm_pkt_list' = MtUnlock(sm_pkt_list)
  /\ lsn_pc' = "idle"
  /\ lsn_pkt' = NoPkt
  /\ UNCHANGED otherThanSm
  /\ UNCHANGED <<next_pkt, rpc_pc, sm_it, sm_end, rpc, sm_handled, sm_freed>>

-----------------------------------------------------------------------------
(* The creator thread: session API calls and Rpc::handle_session_management_st *)

ApiCreateSession ==
  /\ rpc_pc = "idle"
  /\ Len(rpc.session_vec) < MaxSessions
  /\ \E cbdis \in BOOLEAN : rpc' = create_session(rpc, cbdis)
  /\ UNCHANGED otherThanSm
  /\ UNCHANGED <<sm_pkt_list, lsn_pc, lsn_pkt, next_pkt, rpc_pc, sm_it,
                 sm_end, sm_handled, sm_freed>>

ApiDestroySession ==
  /\ rpc_pc = "idle"
  /\ \E sn \in SessionNums :
       /\ CanDestroySession(rpc, sn)
       /\ rpc' = destroy_session(rpc, sn)
  /\ UNCHANGED otherThanSm
  /\ UNCHANGED <<sm_pkt_list, lsn_pc, lsn_pkt, next_pkt, rpc_pc, sm_it,
                 sm_end, sm_handled, sm_freed>>

\* The event loop finds the hook's list non-empty and calls
\* handle_session_management_st.
SmEnter ==
  /\ rpc_pc = "idle"
  /\ sm_pkt_list.size > 0
  /\ rpc_pc' = "lock"
  /\ UNCHANGED otherThanSm
  /\ UNCHANGED <<sm_pkt_list, lsn_pc, lsn_pkt, next_pkt, sm_it, sm_end, rpc,
                 sm_handled, sm_freed>>

\* A handle_session_management_st that does not wait for the mutex.
SmLock_NoMutex ==
  /\ rpc_pc = "lock"
  /\ sm_pkt_list' = MtLock(sm_pkt_list)
  /\ rpc_pc' = IF sm_pkt_list.size > 0 THEN "iter" ELSE "abort"
  /\ sm_it' = 1
  /\ sm_end' = Len(sm_pkt_list.list)
  /\ UNCHANGED otherThanSm
  /\ UNCHANGED <<lsn_pc, lsn_pkt, next_pkt, rpc, sm_handled, sm_freed>>

\* assert(nexus_hook.sm_pkt_list.size > 0); nexus_hook.sm_pkt_list.lock();
\* and the range-for's begin/end
SmLock ==
  /\ rpc_pc = "lock"
  /\ ~sm_pkt_list.locked
  /\ sm_pkt_list' = MtLock(sm_pkt_list)
  /\ rpc_pc' = IF sm_pkt_list.size > 0 THEN "iter" ELSE "abort"
  /\ sm_it' = 1
  /\ sm_end' = Len(sm_pkt_list.list)
  /\ UNCHANGED otherThanSm
  /\ UNCHANGED <<lsn_pc, lsn_pkt, next_pkt, rpc, sm_handled, sm_freed>>

\* The sender of a packet cannot be this Rpc.
SmSenderIsSelf(pkt) ==
  IF pkt.pkt_type \in {"kConnectReq", "kDisconnectReq"}
  THEN pkt.client.hostname = ThisHostname /\ pkt.client.rpc_id = ThisRpcId
  ELSE pkt.server.hostname = ThisHostname /\ pkt.server.rpc_id = ThisRpcId

\* switch (sm_pkt->pkt_type): the handler called and the Rpc it leaves.
SmDispatch(R, pkt) ==
  CASE pkt.pkt_type = "kConnectReq" ->
         [h |-> "handle_connect_req_st", R |-> handle_connect_req_st(R, pkt)]
    [] pkt.pkt_type = "kConnectResp" ->
         [h |-> "handle_connect_resp_st", R |-> handle_connect_resp_st(R, pkt)]
    [] pkt.pkt_type = "kDisconnectReq" ->
         [h |-> "handle_disconnect_req_st",
          R |-> handle_disconnect_req_st(R, pkt)]
    [] pkt.pkt_type = "kDisconnectResp" ->
         [h |-> "handle_disconnect_resp_st",
          R |-> handle_disconnect_resp_st(R, pkt)]
    [] OTHER -> [h |-> "none", R |-> AssertFail(R)]

\* One iteration of the range-for: the sender check, the dispatch and
\* free(sm_pkt). A failed assert aborts the process.
SmHandle ==
  /\ rpc_pc = "iter"
  /\ sm_it <= sm_end
  /\ sm_it <= Len(sm_pkt_list.list)
  /\ LET e == sm_pkt_list.list[sm_it] IN
       IF SmSenderIsSelf(e.pkt)
       THEN /\ rpc' = AssertFail(rpc)
            /\ rpc_pc' = "abort"
            /\ UNCHANGED <<sm_handled, sm_freed, sm_it, sm_pkt_list>>
       ELSE LET d == SmDispatch(rpc, e.pkt)
                mutated == IF Len(d.R.sent) > Len(rpc.sent)
                           THEN d.R.sent[Len(d.R.sent)] ELSE e.pkt
            IN /\ rpc' = d.R
               /\ sm_handled' = Append(sm_handled,
                                       [id |-> e.id, pkt_type |-> e.pkt.pkt_type,
                                        handler |-> d.h])
               /\ sm_pkt_list' =
                    [sm_pkt_list EXCEPT !.list[sm_it].pkt = mutated]
               /\ IF d.R.assert_failed
                  THEN /\ rpc_pc' = "abort"
                       /\ UNCHANGED <<sm_freed, sm_it>>
                  ELSE /\ sm_freed' = Append(sm_freed, e.id)
                       /\ sm_it' = sm_it + 1
                       /\ UNCHANGED rpc_pc
  /\ UNCHANGED otherThanSm
  /\ UNCHANGED <<lsn_pc, lsn_pkt, next_pkt, sm_end>>

\* The range-for ends.
SmIterEnd ==
  /\ rpc_pc = "iter"
  /\ sm_it > sm_end
  /\ rpc_pc' = "clear"
  /\ UNCHANGED otherThanSm
  /\ UNCHANGED <<sm_pkt_list, lsn_pc, lsn_pkt, next_pkt, sm_it, sm_end, rpc,
                 sm_handled, sm_freed>>

\* nexus_hook.sm_pkt_list.locked_clear();
SmClear ==
  /\ rpc_pc = "clear"
  /\ sm_pkt_list' = MtLockedClear(sm_pkt_list)
  /\ rpc_pc' = "unlock"
  /\ UNCHANGED otherThanSm
  /\ UNCHANGED <<lsn_pc, lsn_pkt, next_pkt, sm_it, sm_end, rpc, sm_handled,
                 sm_freed>>

\* nexus_hook.sm_pkt_list.unlock();
SmUnlock ==
  /\ rpc_pc = "unlock"
  /\ sm_pkt_list' = MtUnlock(sm_pkt_list)
  /\ rpc_pc' = "idle"
  /\ UNCHANGED otherThanSm
  /\ UNCHANGED <<lsn_pc, lsn_pkt, next_pkt, sm_it, sm_end, rpc, sm_handled,
                 sm_freed>>

InitSmVars ==
  /\ sm_pkt_list = MtListEmpty
  /\ lsn_pc = "idle"
  /\ lsn_pkt = NoPkt
  /\ next_pkt = 1
  /\ rpc_pc = "idle"
  /\ sm_it = 1
  /\ sm_end = 0
  /\ rpc = InitRpc
  /\ sm_handled = <<>>
  /\ sm_freed = <<>>

NextSm ==
  \/ LsnLock \/ LsnPushBack \/ LsnSize \/ LsnUnlock
  \/ ApiCreateSession \/ ApiDestroySession
  \/ SmEnter \/ SmLock \/ SmHandle \/ SmIterEnd \/ SmClear \/ SmUnlock

-----------------------------------------------------------------------------
(* TlsRegistry *)

\* A registry whose counter starts at one.
InitEtid_One == 0 + 1

\* TlsRegistry() : cur_etid(0)
InitEtid == 0

\* init(), first half: the atomic fetch-and-add on cur_etid.
TlsFetchAdd(t) ==
  /\ tls_pc[t] = "start"
  /\ tls_tmp' = [tls_tmp EXCEPT ![t] = cur_etid]
  /\ cur_etid' = cur_etid + 1
  /\ tls_pc' = [tls_pc EXCEPT ![t] = "store"]
  /\ UNCHANGED otherThanTls
  /\ UNCHANGED tiny_tid

\* init(), second half: the store to the thread-local cell.
TlsStore(t) ==
  /\ tls_pc[t] = "store"
  /\ tiny_tid' = [tiny_tid EXCEPT ![t] = tls_tmp[t]]
  /\ tls_pc' = [tls_pc EXCEPT ![t] = "done"]
  /\ UNCHANGED otherThanTls
  /\ UNCHANGED <<cur_etid, tls_tmp>>

\* The thread ends; its thread-local cell goes with it.
TlsThreadExit(t) ==
  /\ tls_pc[t] = "done"
  /\ tls_pc' = [tls_pc EXCEPT ![t] = "exited"]
  /\ UNCHANGED otherThanTls
  /\ UNCHANGED <<cur_etid, tls_tmp, tiny_tid>>

InitTlsVars ==
  /\ cur_etid = InitEtid
  /\ tls_pc = [t \in TlsThreads |-> "start"]
  /\ tls_tmp = [t \in TlsThreads |-> -1]
  /\ tiny_tid = [t \in TlsThreads |-> -1]

NextTls ==
  \/ \E t \in TlsThreads : TlsFetchAdd(t)
  \/ \E t \in TlsThreads : TlsStore(t)
  \/ \E t \in TlsThreads : TlsThreadExit(t)

-----------------------------------------------------------------------------
(* Rpc::Rpc and Rpc::~Rpc *)

kInvalidRpcId == 255

kMaxPhyPorts == 4

kMaxNumaNodes == 2

\* The arguments a constructor call may be given.
RpcIdArgs == {7, 9, kInvalidRpcId}

PhyPortArgs == {0, kMaxPhyPorts}

NumaNodeArgs == {0, kMaxNumaNodes}

NoRpc == [status |-> "none", rpc_id |-> kInvalidRpcId, creator_os_tid |-> 0,
          transport |-> FALSE, huge_alloc |-> FALSE, in_event_loop |-> FALSE]

\* Nexus::rpc_id_exists
rpc_id_exists(hooks, rpc_id) == hooks[rpc_id] # nullptr

\* in_creator(): the caller is the thread that constructed the Rpc.
in_creator(o, t) == objs[o].creator_os_tid = t

\* The argument checks of the constructor, in their order: the exception
\* thrown, or "ok".
CtorCheck(is_root, nexus_null, rpc_id, phy_port, numa_node, hooks) ==
  IF ~is_root THEN "not_root"
  ELSE IF nexus_null THEN "invalid_nexus"
  ELSE IF rpc_id = kInvalidRpcId \/ rpc_id_exists(hooks, rpc_id)
  THEN "invalid_rpc_id"
  ELSE IF phy_port >= kMaxPhyPorts THEN "invalid_phy_port"
  ELSE IF numa_node >= kMaxNumaNodes THEN "invalid_numa_node"
  ELSE "ok"

\* The Rpc object the next constructor call builds.
NextObj == CHOOSE o \in RpcObjs :
             objs[o].status = "none" /\ \A q \in RpcObjs :
                                          objs[q].status = "none" => o <= q

CtorLogged(t, o, rpc_id, outcome) ==
  Append(ctor_log, [thread |-> t, obj |-> o, rpc_id |-> rpc_id,
                    outcome |-> outcome])

\* The member initializers, which read nexus->num_bg_threads before nexus is
\* compared with nullptr, and the argument checks. With a null nexus the
\* read is undefined: the process crashes, or the checks run.
CtorValidate(t) ==
  /\ ~exited
  /\ thr_pc[t] = "idle"
  /\ \E o \in RpcObjs : objs[o].status = "none"
  /\ \E is_root \in BOOLEAN, nexus_null \in BOOLEAN, rpc_id \in RpcIdArgs,
        phy_port \in PhyPortArgs, numa_node \in NumaNodeArgs :
       LET o == NextObj
           err == CtorCheck(is_root, nexus_null, rpc_id, phy_port,
                            numa_node, reg_hooks)
           built == [NoRpc EXCEPT !.rpc_id = rpc_id, !.creator_os_tid = t]
       IN \/ /\ nexus_null
             /\ exited' = TRUE
             /\ UNCHANGED <<objs, thr_pc, thr_obj, ctor_log>>
          \/ /\ err # "ok"
             /\ objs' = [objs EXCEPT ![o] = [built EXCEPT !.status = "failed"]]
             /\ ctor_log' = CtorLogged(t, o, rpc_id, err)
             /\ UNCHANGED <<thr_pc, thr_obj, exited>>
          \/ /\ err = "ok"
             /\ objs' = [objs EXCEPT
                           ![o] = [built EXCEPT !.status = "constructing"]]
             /\ thr_pc' = [thr_pc EXCEPT ![t] = "ctor_alloc"]
             /\ thr_obj' = [thr_obj EXCEPT ![t] = o]
             /\ UNCHANGED <<exited, ctor_log>>
  /\ UNCHANGED otherThanRpc
  /\ UNCHANGED <<reg_hooks, thr_loop, kDatapathChecks>>

\* A constructor that registers its hook before the hugepage structures
\* are initialized.
CtorAlloc_RegisterFirst(t) ==
  /\ ~exited
  /\ thr_pc[t] = "ctor_alloc"
  /\ LET o == thr_obj[t] IN
       /\ reg_hooks' = [reg_hooks EXCEPT ![objs[o].rpc_id] = o]
       /\ \/ /\ objs' = [objs EXCEPT ![o].transport = TRUE,
                                     ![o].huge_alloc = TRUE]
             /\ thr_pc' = [thr_pc EXCEPT ![t] = "ctor_register"]
             /\ UNCHANGED <<thr_obj, ctor_log>>
          \/ /\ objs' = [objs EXCEPT ![o].transport = TRUE,
                                     ![o].huge_alloc = FALSE,
                                     ![o].status = "failed"]
             /\ thr_pc' = [thr_pc EXCEPT ![t] = "idle"]
             /\ thr_obj' = [thr_obj EXCEPT ![t] = nullptr]
             /\ ctor_log' = CtorLogged(t, o, objs[o].rpc_id, "hugepage_error")
  /\ UNCHANGED otherThanRpc
  /\ UNCHANGED <<thr_loop, exited, kDatapathChecks>>

\* new TTr, new HugeAlloc, and transport->init_hugepage_structures, which
\* may throw: then huge_alloc is deleted and the exception rethrown.
CtorAlloc(t) ==
  /\ ~exited
  /\ thr_pc[t] = "ctor_alloc"
  /\ LET o == thr_obj[t] IN
       \/ /\ objs' = [objs EXCEPT ![o].transport = TRUE,
                                  ![o].huge_alloc = TRUE]
          /\ thr_pc' = [thr_pc EXCEPT ![t] = "ctor_register"]
          /\ UNCHANGED <<thr_obj, ctor_log>>
       \/ /\ objs' = [objs EXCEPT ![o].transport = TRUE,
                                  ![o].huge_alloc = FALSE,
                                  ![o].status = "failed"]
          /\ thr_pc' = [thr_pc EXCEPT ![t] = "idle"]
          /\ thr_obj' = [thr_obj EXCEPT ![t] = nullptr]
          /\ ctor_log' = CtorLogged(t, o, objs[o].rpc_id, "hugepage_error")
  /\ UNCHANGED otherThanRpc
  /\ UNCHANGED <<reg_hooks, thr_loop, exited, kDatapathChecks>>

\* nexus->register_hook(&nexus_hook): the Nexus rejects an RpcId that is
\* already in its table, and the construction fails.
CtorRegister(t) ==
  /\ ~exited
  /\ thr_pc[t] = "ctor_register"
  /\ LET o == thr_obj[t]
         id == objs[o].rpc_id
     IN IF reg_hooks[id] = nullptr
        THEN /\ reg_hooks' = [reg_hooks EXCEPT ![id] = o]
             /\ objs' = [objs EXCEPT ![o].status = "live"]
             /\ ctor_log' = CtorLogged(t, o, id, "created")
        ELSE /\ objs' = [objs EXCEPT ![o].status = "failed"]
             /\ ctor_log' = CtorLogged(t, o, id, "duplicate_registration")
             /\ UNCHANGED reg_hooks
  /\ thr_pc' = [thr_pc EXCEPT ![t] = "idle"]
  /\ thr_obj' = [thr_obj EXCEPT ![t] = nullptr]
  /\ UNCHANGED otherThanRpc
  /\ UNCHANGED <<thr_loop, exited, kDatapathChecks>>

\* The creator thread enters the event loop of its Rpc; entrance is tracked
\* in in_event_loop only when kDatapathChecks is on.
EventLoopEnter(t) ==
  /\ ~exited
  /\ thr_pc[t] = "idle"
  /\ thr_loop[t] = nullptr
  /\ \E o \in RpcObjs :
       /\ objs[o].status = "live"
       /\ in_creator(o, t)
       /\ thr_loop' = [thr_loop EXCEPT ![t] = o]
       /\ objs' = [objs EXCEPT ![o].in_event_loop = kDatapathChecks]
  /\ UNCHANGED otherThanRpc
  /\ UNCHANGED <<reg_hooks, thr_pc, thr_obj, exited, kDatapathChecks,
                 ctor_log>>

EventLoopExit(t) ==
  /\ ~exited
  /\ thr_pc[t] = "idle"
  /\ thr_loop[t] # nullptr
  /\ thr_loop' = [thr_loop EXCEPT ![t] = nullptr]
  /\ objs' = IF objs[thr_loop[t]].status = "live"
             THEN [objs EXCEPT ![thr_loop[t]].in_event_loop = FALSE]
             ELSE objs
  /\ UNCHANGED otherThanRpc
  /\ UNCHANGED <<reg_hooks, thr_pc, thr_obj, exited, kDatapathChecks,
                 ctor_log>>

\* A thread deletes a live Rpc: from its top level, or from a handler that
\* runs inside an event loop.
DtorCall(t) ==
  /\ ~exited
  /\ thr_pc[t] = "idle"
  /\ \E o \in RpcObjs :
       /\ objs[o].status = "live"
       /\ \A u \in AppThreads : thr_obj[u] # o
       /\ thr_obj' = [thr_obj EXCEPT ![t] = o]
  /\ thr_pc' = [thr_pc EXCEPT ![t] = "dtor_check"]
  /\ UNCHANGED otherThanRpc
  /\ UNCHANGED <<reg_hooks, objs, thr_loop, exited, kDatapathChecks,
                 ctor_log>>

\* A destructor that does not check the calling thread.
DtorCheck_NoCreatorCheck(t) ==
  /\ ~exited
  /\ thr_pc[t] = "dtor_check"
  /\ IF kDatapathChecks /\ objs[thr_obj[t]].in_event_loop
     THEN exited' = TRUE /\ UNCHANGED thr_pc
     ELSE thr_pc' = [thr_pc EXCEPT ![t] = "dtor_huge_alloc"]
          /\ UNCHANGED exited
  /\ UNCHANGED otherThanRpc
  /\ UNCHANGED <<reg_hooks, objs, thr_obj, thr_loop, kDatapathChecks,
                 ctor_log>>

\* ~Rpc(): exit(-1) unless in_creator(); exit(-1) if kDatapathChecks and
\* in_event_loop.
DtorCheck(t) ==
  /\ ~exited
  /\ thr_pc[t] = "dtor_check"
  /\ IF ~in_creator(thr_obj[t], t)
     THEN exited' = TRUE /\ UNCHANGED thr_pc
     ELSE IF kDatapathChecks /\ objs[thr_obj[t]].in_event_loop
     THEN exited' = TRUE /\ UNCHANGED thr_pc
     ELSE thr_pc' = [thr_pc EXCEPT ![t] = "dtor_huge_alloc"]
          /\ UNCHANGED exited
  /\ UNCHANGED otherThanRpc
  /\ UNCHANGED <<reg_hooks, objs, thr_obj, thr_loop, kDatapathChecks,
                 ctor_log>>

\* delete huge_alloc;
DtorHugeAlloc(t) ==
  /\ ~exited
  /\ thr_pc[t] = "dtor_huge_alloc"
  /\ objs' = [objs EXCEPT ![thr_obj[t]].huge_alloc = FALSE]
  /\ thr_pc' = [thr_pc EXCEPT ![t] = "dtor_transport"]
  /\ UNCHANGED otherThanRpc
  /\ UNCHANGED <<reg_hooks, thr_obj, thr_loop, exited, kDatapathChecks,
                 ctor_log>>

\* delete transport;
DtorTransport(t) ==
  /\ ~exited
  /\ thr_pc[t] = "dtor_transport"
  /\ objs' = [objs EXCEPT ![thr_obj[t]].transport = FALSE]
  /\ thr_pc' = [thr_pc EXCEPT ![t] = "dtor_unregister"]
  /\ UNCHANGED otherThanRpc
  /\ UNCHANGED <<reg_hooks, thr_obj, thr_loop, exited, kDatapathChecks,
                 ctor_log>>

\* nexus->unregister_hook(&nexus_hook);
DtorUnregister(t) ==
  /\ ~exited
  /\ thr_pc[t] = "dtor_unregister"
  /\ LET o == thr_obj[t] IN
       /\ reg_hooks' = [reg_hooks EXCEPT ![objs[o].rpc_id] =
                          IF @ = o THEN nullptr ELSE @]
       /\ objs' = [objs EXCEPT ![o].status = "destroyed"]
  /\ thr_pc' = [thr_pc EXCEPT ![t] = "idle"]
  /\ thr_obj' = [thr_obj EXCEPT ![t] = nullptr]
  /\ UNCHANGED otherThanRpc
  /\ UNCHANGED <<thr_loop, exited, kDatapathChecks, ctor_log>>

InitRpcVars ==
  /\ reg_hooks = [id \in RpcIdArgs |-> nullptr]
  /\ objs = [o \in RpcObjs |-> NoRpc]
  /\ thr_pc = [t \in AppThreads |-> "idle"]
  /\ thr_obj = [t \in AppThreads |-> nullptr]
  /\ thr_loop = [t \in AppThreads |-> nullptr]
  /\ exited = FALSE
  /\ kDatapathChecks \in BOOLEAN
  /\ ctor_log = <<>>

NextRpc ==
  \/ \E t \in AppThreads : CtorValidate(t)
  \/ \E t \in AppThreads : CtorAlloc(t)
  \/ \E t \in AppThreads : CtorRegister(t)
  \/ \E t \in AppThreads : EventLoopEnter(t)
  \/ \E t \in AppThreads : EventLoopExit(t)
  \/ \E t \in AppThreads : DtorCall(t)
  \/ \E t \in AppThreads : DtorCheck(t)
  \/ \E t \in AppThreads : DtorHugeAlloc(t)
  \/ \E t \in AppThreads : DtorTransport(t)
  \/ \E t \in AppThreads : DtorUnregister(t)

-----------------------------------------------------------------------------
(* Producers: an Rpc thread handing a work item to the worker's list *)

\* The exception thrown by a worker whose tiny thread id is not its index
\* leaves bg_thread_func uncaught and ends the process with all its threads.
ProcessRunning == bg_pc # "terminated"

PushLock(p) ==
  /\ ProcessRunning
  /\ prod_pc[p] = "idle"
  /\ next_item <= MaxItems
  /\ ~bg_req_list.locked
  /\ \E t \in BgWorkItemTypes :
       prod_item' = [prod_item EXCEPT ![p] = BgWorkItem(next_item, t)]
  /\ next_item' = next_item + 1
  /\ bg_req_list' = MtLock(bg_req_list)
  /\ prod_pc' = [prod_pc EXCEPT ![p] = "push_back"]
  /\ UNCHANGED otherThanBg /\ UNCHANGED <<bg_kill_switch, bg_pc, bg_it, bg_end, bg_ndrains, inv_log,
                 rx_buried>>

PushBack(p) ==
  /\ ProcessRunning
  /\ prod_pc[p] = "push_back"
  /\ bg_req_list' = MtPushBack(bg_req_list, prod_item[p])
  /\ prod_pc' = [prod_pc EXCEPT ![p] = "size"]
  /\ UNCHANGED otherThanBg /\ UNCHANGED <<bg_kill_switch, bg_pc, bg_it, bg_end, bg_ndrains, inv_log,
                 rx_buried, prod_item, next_item>>

PushSize(p) ==
  /\ ProcessRunning
  /\ prod_pc[p] = "size"
  /\ bg_req_list' = MtIncrSize(bg_req_list)
  /\ prod_pc' = [prod_pc EXCEPT ![p] = "unlock"]
  /\ UNCHANGED otherThanBg /\ UNCHANGED <<bg_kill_switch, bg_pc, bg_it, bg_end, bg_ndrains, inv_log,
                 rx_buried, prod_item, next_item>>

PushUnlock(p) ==
  /\ ProcessRunning
  /\ prod_pc[p] = "unlock"
  /\ bg_req_list' = MtUnlock(bg_req_list)
  /\ prod_pc' = [prod_pc EXCEPT ![p] = "idle"]
  /\ prod_item' = [prod_item EXCEPT ![p] = NoItem]
  /\ UNCHANGED otherThanBg /\ UNCHANGED <<bg_kill_switch, bg_pc, bg_it, bg_end, bg_ndrains, inv_log,
                 rx_buried, next_item>>

-----------------------------------------------------------------------------
(* Nexus::bg_thread_func, from the while loop on *)

\* while (*bg_kill_switch == false)
BgLoop ==
  /\ bg_pc = "loop"
  /\ bg_pc' = IF bg_kill_switch THEN "exit" ELSE "probe"
  /\ UNCHANGED otherThanBg /\ UNCHANGED <<bg_kill_switch, bg_req_list, bg_it, bg_end, bg_ndrains,
                 inv_log, rx_buried, prod_pc, prod_item, next_item>>

\* A worker that goes on to lock the list whatever size it read.
BgProbe_AlwaysLock ==
  /\ bg_pc = "probe"
  /\ bg_pc' = "lock"
  /\ UNCHANGED otherThanBg /\ UNCHANGED <<bg_kill_switch, bg_req_list, bg_it, bg_end, bg_ndrains,
                 inv_log, rx_buried, prod_pc, prod_item, next_item>>

\* if (req_list.size == 0) { usleep(1); continue; }
BgProbe ==
  /\ bg_pc = "probe"
  /\ bg_pc' = IF bg_req_list.size = 0 THEN "loop" ELSE "lock"
  /\ UNCHANGED otherThanBg /\ UNCHANGED <<bg_kill_switch, bg_req_list, bg_it, bg_end, bg_ndrains,
                 inv_log, rx_buried, prod_pc, prod_item, next_item>>

\* The same read made without the lock while producers write size: the
\* worker may see a value that size had earlier since its own last
\* locked_clear, that is any value from 0 up to the present one.
BgProbeStale ==
  /\ bg_pc = "probe"
  /\ \E seen \in 0..bg_req_list.size :
       bg_pc' = IF seen = 0 THEN "loop" ELSE "lock"
  /\ UNCHANGED otherThanBg /\ UNCHANGED <<bg_kill_switch, bg_req_list, bg_it, bg_end, bg_ndrains,
                 inv_log, rx_buried, prod_pc, prod_item, next_item>>

\* A worker that enters the loop body without taking the list's mutex.
BgLock_NoMutex ==
  /\ bg_pc = "lock"
  /\ bg_pc' = IF bg_req_list.size > 0 THEN "iter" ELSE "abort"
  /\ bg_it' = 1
  /\ bg_end' = Len(bg_req_list.list)
  /\ bg_ndrains' = bg_ndrains + 1
  /\ UNCHANGED otherThanBg /\ UNCHANGED <<bg_kill_switch, bg_req_list, inv_log, rx_buried, prod_pc,
                 prod_item, next_item>>

\* req_list.lock(); assert(req_list.size > 0); and the range-for's begin/end
BgLock ==
  /\ bg_pc = "lock"
  /\ ~bg_req_list.locked
  /\ bg_req_list' = MtLock(bg_req_list)
  /\ bg_pc' = IF bg_req_list.size > 0 THEN "iter" ELSE "abort"
  /\ bg_it' = 1
  /\ bg_end' = Len(bg_req_list.list)
  /\ bg_ndrains' = bg_ndrains + 1
  /\ UNCHANGED otherThanBg /\ UNCHANGED <<bg_kill_switch, inv_log, rx_buried, prod_pc, prod_item,
                 next_item>>

\* sslot->rx_msgbuf.get_req_type() for the slot of work item i.
NumReqTypes == 2

get_req_type(i) == i % NumReqTypes

\* sslot->clt_save_info.tag for the slot of work item i.
clt_save_info_tag(i) == i

\* The function the worker calls for work item wi: the entry of req_func_arr
\* at the slot's request type, or the slot's saved continuation with the
\* saved tag.
Callee(wi) ==
  IF wi.wi_type = "kReq"
  THEN [func |-> "req_func", arg |-> get_req_type(wi.id)]
  ELSE [func |-> "cont_func", arg |-> clt_save_info_tag(wi.id)]

\* A variant that releases the rx buffer after a continuation too.
BgInvoke_BuryAlways ==
  /\ bg_pc = "iter"
  /\ bg_it <= bg_end
  /\ bg_it <= Len(bg_req_list.list)
  /\ LET wi == bg_req_list.list[bg_it] IN
       /\ inv_log' = Append(inv_log, [id |-> wi.id, wi_type |-> wi.wi_type,
                                      drain |-> bg_ndrains,
                                      call |-> Callee(wi)])
       /\ bg_pc' = "bury"
       /\ bg_it' = bg_it
  /\ UNCHANGED otherThanBg /\ UNCHANGED <<bg_kill_switch, bg_req_list, bg_end, bg_ndrains,
                 rx_buried, prod_pc, prod_item, next_item>>

\* A range-for that walks the list from its back.
BgInvoke_Reversed ==
  /\ bg_pc = "iter"
  /\ bg_it <= bg_end
  /\ bg_it <= Len(bg_req_list.list)
  /\ LET wi == bg_req_list.list[bg_end - bg_it + 1] IN
       /\ inv_log' = Append(inv_log, [id |-> wi.id, wi_type |-> wi.wi_type,
                                      drain |-> bg_ndrains,
                                      call |-> Callee(wi)])
       /\ bg_pc' = IF wi.wi_type = "kReq" THEN "bury" ELSE "iter"
       /\ bg_it' = IF wi.wi_type = "kReq" THEN bg_it ELSE bg_it + 1
  /\ UNCHANGED otherThanBg /\ UNCHANGED <<bg_kill_switch, bg_req_list, bg_end, bg_ndrains,
                 rx_buried, prod_pc, prod_item, next_item>>

\* One callback of the range-for: req_func.req_func(sslot, context) for a
\* request, after which bury_sslot_rx_msgbuf is still to run, or
\* cont_func(sslot, context, tag) for a continuation, which ends the
\* iteration.
BgInvoke ==
  /\ bg_pc = "iter"
  /\ bg_it <= bg_end
  /\ bg_it <= Len(bg_req_list.list)
  /\ LET wi == bg_req_list.list[bg_it] IN
       /\ inv_log' = Append(inv_log, [id |-> wi.id, wi_type |-> wi.wi_type,
                                      drain |-> bg_ndrains,
                                      call |-> Callee(wi)])
       /\ bg_pc' = IF wi.wi_type = "kReq" THEN "bury" ELSE "iter"
       /\ bg_it' = IF wi.wi_type = "kReq" THEN bg_it ELSE bg_it + 1
  /\ UNCHANGED otherThanBg /\ UNCHANGED <<bg_kill_switch, bg_req_list, bg_end, bg_ndrains,
                 rx_buried, prod_pc, prod_item, next_item>>

\* bg_work_item.rpc->bury_sslot_rx_msgbuf(sslot); ends the iteration of a
\* request.
BgBury ==
  /\ bg_pc = "bury"
  /\ rx_buried' = rx_buried \cup {bg_req_list.list[bg_it].id}
  /\ bg_it' = bg_it + 1
  /\ bg_pc' = "iter"
  /\ UNCHANGED otherThanBg /\ UNCHANGED <<bg_kill_switch, bg_req_list, bg_end, bg_ndrains,
                 inv_log, prod_pc, prod_item, next_item>>

\* The range-for ends.
BgIterEnd ==
  /\ bg_pc = "iter"
  /\ bg_it > bg_end
  /\ bg_pc' = "clear"
  /\ UNCHANGED otherThanBg /\ UNCHANGED <<bg_kill_switch, bg_req_list, bg_it, bg_end, bg_ndrains,
                 inv_log, rx_buried, prod_pc, prod_item, next_item>>

\* req_list.locked_clear();
BgClear ==
  /\ bg_pc = "clear"
  /\ bg_req_list' = MtLockedClear(bg_req_list)
  /\ bg_pc' = "unlock"
  /\ UNCHANGED otherThanBg /\ UNCHANGED <<bg_kill_switch, bg_it, bg_end, bg_ndrains, inv_log,
                 rx_buried, prod_pc, prod_item, next_item>>

\* req_list.unlock();
BgUnlock ==
  /\ bg_pc = "unlock"
  /\ bg_req_list' = MtUnlock(bg_req_list)
  /\ bg_pc' = "loop"
  /\ UNCHANGED otherThanBg /\ UNCHANGED <<bg_kill_switch, bg_it, bg_end, bg_ndrains, inv_log,
                 rx_buried, prod_pc, prod_item, next_item>>

\* Nexus shutdown sets the worker's kill switch.
SetKillSwitch ==
  /\ ProcessRunning
  /\ ~bg_kill_switch
  /\ bg_kill_switch' = TRUE
  /\ UNCHANGED otherThanBg /\ UNCHANGED <<bg_req_list, bg_pc, bg_it, bg_end, bg_ndrains, inv_log,
                 rx_buried, prod_pc, prod_item, next_item>>

BgWorker == BgLoop \/ BgProbe \/ BgLock \/ BgInvoke \/ BgBury \/ BgIterEnd
            \/ BgClear \/ BgUnlock

InitBgVars ==
  /\ bg_kill_switch = FALSE
  /\ bg_req_list = MtListEmpty
  /\ bg_pc = "loop"
  /\ bg_it = 1
  /\ bg_end = 0
  /\ bg_ndrains = 0
  /\ inv_log = <<>>
  /\ rx_buried = {}
  /\ prod_pc = [p \in Producers |-> "idle"]
  /\ prod_item = [p \in Producers |-> NoItem]
  /\ next_item = 1

-----------------------------------------------------------------------------
(* Nexus::bg_thread_func, before the while loop *)

\* The thread that runs bg_thread_func.
BgThread == 1

\* bg_thread_ctx->bg_thread_index: the Nexus starts one worker, with index 0.
bg_thread_index == 0

\* tls_registry->init() called by the worker thread.
BgTlsInit ==
  /\ bg_pc = "start"
  /\ TlsFetchAdd(BgThread) \/ TlsStore(BgThread)

\* tls_registry->init() called by another thread of the process.
OtherTlsInit(t) ==
  /\ ProcessRunning
  /\ TlsFetchAdd(t) \/ TlsStore(t)

\* A variant that only reports the mismatch and goes on.
BgCheckTid_NoThrow ==
  /\ bg_pc = "start"
  /\ tls_pc[BgThread] = "done"
  /\ bg_pc' = "loop"
  /\ UNCHANGED otherThanBg
  /\ UNCHANGED <<bg_kill_switch, bg_req_list, bg_it, bg_end, bg_ndrains,
                 inv_log, rx_buried, prod_pc, prod_item, next_item>>

\* if (bg_thread_index != tls_registry->get_tiny_tid()) throw ...
BgCheckTid ==
  /\ bg_pc = "start"
  /\ tls_pc[BgThread] = "done"
  /\ bg_pc' = IF bg_thread_index # tiny_tid[BgThread] THEN "terminated"
              ELSE "loop"
  /\ UNCHANGED otherThanBg
  /\ UNCHANGED <<bg_kill_switch, bg_req_list, bg_it, bg_end, bg_ndrains,
                 inv_log, rx_buried, prod_pc, prod_item, next_item>>

\* The worker thread has been created and is at the top of bg_thread_func.
InitBgStartVars ==
  /\ bg_kill_switch = FALSE
  /\ bg_req_list = MtListEmpty
  /\ bg_pc = "start"
  /\ bg_it = 1
  /\ bg_end = 0
  /\ bg_ndrains = 0
  /\ inv_log = <<>>
  /\ rx_buried = {}
  /\ prod_pc = [p \in Producers |-> "idle"]
  /\ prod_item = [p \in Producers |-> NoItem]
  /\ next_item = 1

-----------------------------------------------------------------------------
(* A server session of the Rpc whose request handlers run in the background
   worker, and its client, which disconnects after the last response *)

\* The connect and disconnect requests of the client.
QConnectReq == [pkt_type |-> "kConnectReq", err_type |-> "kNoError",
                client |-> RemoteEp(0), server |-> ThisEp(kInvalidSessionNum)]

QDisconnectReq == [pkt_type |-> "kDisconnectReq", err_type |-> "kNoError",
                   client |-> RemoteEp(0), server |-> ThisEp(0)]

\* bg_work_item.sslot: the slot of the session that work item i belongs to.
SlotOf(i) == ((i - 1) % kSessionReqWindow) + 1

\* The requests received so far: the work items of kind request.
ReqItems ==
  {inv_log[k].id : k \in {j \in DOMAIN inv_log : inv_log[j].wi_type = "kReq"}}
  \cup {bg_req_list.list[k].id :
          k \in {j \in DOMAIN bg_req_list.list :
                   bg_req_list.list[j].wi_type = "kReq"}}
  \cup {prod_item[p].id : p \in {r \in Producers : prod_item[r].wi_type = "kReq"}}

\* The handler of request i has run: it has sent the response.
ResponseSent(i) == \E k \in DOMAIN inv_log : inv_log[k].id = i

\* The rx_msgbuf of slot s is null: every request received into the slot
\* has been through bury_sslot_rx_msgbuf.
RxMsgbufNull(s) == \A i \in ReqItems : SlotOf(i) = s => i \in rx_buried

\* The Rpc with the slots of its sessions as the datapath and the
\* background worker have left them.
WithSlots(R) ==
  [R EXCEPT !.sessions =
     [a \in DOMAIN R.sessions |->
        IF R.sessions[a].deleted THEN R.sessions[a]
        ELSE [R.sessions[a] EXCEPT !.sslot_arr =
                [s \in SSlots |-> [@[s] EXCEPT !.rx_msgbuf_null =
                                                 RxMsgbufNull(s)]]]]]

\* The creator thread handles the client's connect request.
QConnect ==
  /\ rpc.session_vec = <<>>
  /\ ~rpc.assert_failed
  /\ rpc' = handle_connect_req_st(rpc, QConnectReq)
  /\ UNCHANGED <<bgVars, tlsVars, rpcVars, qVars>>
  /\ UNCHANGED <<sm_pkt_list, lsn_pc, lsn_pkt, next_pkt, rpc_pc, sm_it, sm_end,
                 sm_handled, sm_freed>>

\* A request of the client arrives on the connected session and is handed
\* to the background worker.
QRequest(p) ==
  /\ rpc.session_vec # <<>>
  /\ ~rpc.assert_failed
  /\ q_disc = "none"
  /\ PushLock(p)

\* The client has the responses to all its requests and sends the
\* disconnect request.
QClientDisconnect ==
  /\ rpc.session_vec # <<>>
  /\ q_disc = "none"
  /\ \A p \in Producers : prod_pc[p] = "idle"
  /\ \A i \in ReqItems : ResponseSent(i)
  /\ q_disc' = "sent"
  /\ UNCHANGED <<bgVars, smVars, tlsVars, rpcVars>>

\* The creator thread handles the disconnect request.
QHandleDisconnect ==
  /\ q_disc = "sent"
  /\ ~rpc.assert_failed
  /\ rpc' = handle_disconnect_req_st(WithSlots(rpc), QDisconnectReq)
  /\ q_disc' = "handled"
  /\ UNCHANGED <<bgVars, tlsVars, rpcVars>>
  /\ UNCHANGED <<sm_pkt_list, lsn_pc, lsn_pkt, next_pkt, rpc_pc, sm_it, sm_end,
                 sm_handled, sm_freed>>

InitQVars == q_disc = "none"

NextQ ==
  \/ QConnect
  \/ \E p \in Producers : QRequest(p)
  \/ \E p \in Producers : PushBack(p)
  \/ \E p \in Producers : PushSize(p)
  \/ \E p \in Producers : PushUnlock(p)
  \/ BgWorker
  \/ QClientDisconnect
  \/ QHandleDisconnect

Init == InitBgVars /\ InitSmVars /\ InitTlsVars /\ InitRpcVars /\ InitQVars

SpecQ == Init /\ [][NextQ]_vars

SpecTls == Init /\ [][NextTls]_vars

SpecRpc == Init /\ [][NextRpc]_vars

SpecSm == Init /\ [][NextSm]_vars

NextBg ==
  \/ BgWorker
  \/ SetKillSwitch
  \/ \E p \in Producers : PushLock(p)
  \/ \E p \in Producers : PushBack(p)
  \/ \E p \in Producers : PushSize(p)
  \/ \E p \in Producers : PushUnlock(p)

SpecBg == Init /\ [][NextBg]_vars

\* The worker with reads of size that may be stale.
NextBgStale == NextBg \/ BgProbeStale

SpecBgStale == Init /\ [][NextBgStale]_vars

\* The worker from the top of bg_thread_func, with the other threads of the
\* process that call TlsRegistry::init.
InitStart ==
  InitBgStartVars /\ InitSmVars /\ InitTlsVars /\ InitRpcVars /\ InitQVars

NextBgStart ==
  \/ BgTlsInit
  \/ \E t \in TlsThreads \ {BgThread} : OtherTlsInit(t)
  \/ BgCheckTid
  \/ NextBg

SpecBgStart == InitStart /\ [][NextBgStart]_vars

\* The worker thread is scheduled fairly, and a producer that is inside push
\* (it holds the mutex) runs on to the end of push.
PushFinish(p) == PushBack(p) \/ PushSize(p) \/ PushUnlock(p)

SpecBgFair ==
  /\ SpecBg
  /\ WF_vars(BgWorker)
  /\ \A p \in Producers : WF_vars(PushFinish(p))

-----------------------------------------------------------------------------
(* Observations on the background worker *)

\* Number of times the callback of work item i has been invoked.
InvCount(i) == Cardinality({k \in DOMAIN inv_log : inv_log[k].id = i})

\* Work item i is in the worker's list.
InList(i) == \E k \in DOMAIN bg_req_list.list : bg_req_list.list[k].id = i

\* The push_back of work item i has happened.
Appended(i) ==
  /\ i < next_item
  /\ \A p \in Producers :
       ~(prod_item[p].id = i /\ prod_pc[p] = "push_back")

-----------------------------------------------------------------------------
(* C1: every work item pushed onto the worker's list has its callback
   invoked exactly once: never twice, never dropped by locked_clear without
   having been invoked, and, as long as the kill switch is not set and the
   worker is scheduled fairly, eventually once. *)
C1_ExactlyOnce ==
  /\ [](\A i \in ItemIds :
         /\ InvCount(i) <= 1
         /\ (Appended(i) /\ ~InList(i)) => InvCount(i) = 1)
  /\ \A i \in ItemIds :
       Appended(i) ~> (InvCount(i) = 1 \/ bg_kill_switch)

\* Every item has been invoked exactly once, in more than one drain, with
\* the kill switch unset.
C1_Witness ==
  /\ ~bg_kill_switch
  /\ \A i \in ItemIds : InvCount(i) = 1
  /\ \E k \in DOMAIN inv_log : inv_log[k].drain > 1

-----------------------------------------------------------------------------
(* Observations on session management *)

HandledCount(i) ==
  Cardinality({k \in DOMAIN sm_handled : sm_handled[k].id = i})

FreedCount(i) == Cardinality({k \in DOMAIN sm_freed : sm_freed[k] = i})

PktInList(i) == \E k \in DOMAIN sm_pkt_list.list : sm_pkt_list.list[k].id = i

\* The listener's push_back of packet i has happened.
PktAppended(i) == i < next_pkt /\ ~(lsn_pkt.id = i /\ lsn_pc = "push_back")

HandlerFor(t) ==
  CASE t = "kConnectReq" -> "handle_connect_req_st"
    [] t = "kConnectResp" -> "handle_connect_resp_st"
    [] t = "kDisconnectReq" -> "handle_disconnect_req_st"
    [] t = "kDisconnectResp" -> "handle_disconnect_resp_st"
    [] OTHER -> "none"

\* The packet the range-for of handle_session_management_st is at.
SmCur == sm_pkt_list.list[sm_it].pkt

\* This step is the handling of a packet of type t.
SmHandling(t) ==
  /\ rpc_pc = "iter"
  /\ sm_it <= sm_end
  /\ sm_it <= Len(sm_pkt_list.list)
  /\ SmCur.pkt_type = t
  /\ rpc_pc' = "abort" \/ sm_it' # sm_it

\* Session number sn is within session_vec and its entry is empty.
SlotEmpty(sn) ==
  sn < Len(rpc.session_vec) /\ rpc.session_vec[sn + 1] = nullptr

\* Callbacks invoked so far for session number sn.
CbFor(sn) == SelectSeq(rpc.cb_log, LAMBDA c : c.session_num = sn)

\* bury_session_st has run for the session that had number sn.
Buried(sn) ==
  \E k \in DOMAIN rpc.bury_log :
    rpc.sessions[rpc.bury_log[k]].local_session_num = sn

StateRank(st) ==
  CASE st = "kConnectInProgress" -> 1
    [] st = "kConnected" -> 2
    [] st = "kDisconnectInProgress" -> 3
    [] st = "kDisconnected" -> 4

-----------------------------------------------------------------------------
(* C2: every packet the listener appended to the hook's list is passed to
   the handler of its pkt_type at most once and freed at most once, never
   freed without having been handled, and a packet that has left the list
   was handled exactly once and freed exactly once: locked_clear removes
   no packet that was not handled. *)
C2_DispatchedOnce ==
  /\ \A k \in DOMAIN sm_handled :
       sm_handled[k].handler = HandlerFor(sm_handled[k].pkt_type)
  /\ \A i \in PktIds :
       /\ HandledCount(i) <= 1
       /\ FreedCount(i) <= HandledCount(i)
       /\ (PktAppended(i) /\ ~PktInList(i)) =>
            (HandledCount(i) = 1 /\ FreedCount(i) = 1)

\* All packets were handled and freed, by three different handlers, and
\* the list has been cleared.
C2_Witness ==
  /\ rpc_pc = "idle"
  /\ sm_pkt_list.list = <<>>
  /\ \A i \in PktIds : HandledCount(i) = 1 /\ FreedCount(i) = 1
  /\ Cardinality({sm_handled[k].handler : k \in DOMAIN sm_handled}) >= 3

(* C3: handling a disconnect request whose server session number names an
   empty slot of session_vec sends the kNoError disconnect response made
   from the request and changes nothing else of the Rpc: session_vec, the
   sessions, the retry queue, the callbacks made and the sessions buried
   stay as they are. Every disconnect response the Rpc ever sends carries
   kNoError, so a replay is answered like the first request. *)
C3_DuplicateDisconnectReq ==
  /\ [][(SmHandling("kDisconnectReq") /\ SlotEmpty(SmCur.server.session_num))
          => rpc' = [rpc EXCEPT
                       !.sent =
                         Append(@, [SmCur EXCEPT !.pkt_type = "kDisconnectResp",
                                                 !.err_type = "kNoError"]),
                       !.op_log =
                         Append(@, [op |-> "send",
                                    arg |-> SmCur.server.session_num])]]_vars
  /\ [](\A k \in DOMAIN rpc.sent :
          rpc.sent[k].pkt_type = "kDisconnectResp"
            => rpc.sent[k].err_type = "kNoError")

\* A server session was buried once and the same disconnect response was
\* sent twice: for the request and for its replay.
C3_Witness ==
  /\ Len(rpc.bury_log) = 1
  /\ \E j, k \in DOMAIN rpc.sent :
       /\ j < k
       /\ rpc.sent[j] = rpc.sent[k]
       /\ rpc.sent[k].pkt_type = "kDisconnectResp"

(* C4: handling a disconnect response whose client session number names an
   empty slot of session_vec leaves the Rpc as it is: no callback, no
   session state change, the retry queue unchanged, nothing sent. *)
C4_DuplicateDisconnectResp ==
  [][(SmHandling("kDisconnectResp") /\ SlotEmpty(SmCur.client.session_num))
       => (rpc' = rpc /\ rpc_pc' = rpc_pc)]_vars

\* A disconnect response for a buried client session has been handled.
C4_Witness ==
  \E j, k \in DOMAIN sm_handled :
    /\ j < k
    /\ sm_handled[j].handler = "handle_disconnect_resp_st"
    /\ sm_handled[k].handler = "handle_disconnect_resp_st"
    /\ Len(rpc.bury_log) = 1
    /\ rpc_pc # "abort"
    /\ Len(sm_freed) >= k

(* C5: once bury_session_st has run for a session, the entry of session_vec
   it had is empty and stays empty, and no further session management
   callback is invoked for that session number. *)
C5_BuriedStaysBuried ==
  /\ [](\A sn \in SessionNums : Buried(sn) => SlotEmpty(sn))
  /\ [][\A sn \in SessionNums : Buried(sn) => CbFor(sn)' = CbFor(sn)]_vars

\* A client session got its disconnect callback, was buried, and a further
\* disconnect packet for its number was handled afterwards.
C5_Witness ==
  \E sn \in SessionNums :
    /\ Buried(sn)
    /\ \E c \in DOMAIN rpc.cb_log :
         rpc.cb_log[c] = [session_num |-> sn, event |-> "kDisconnected",
                          err_type |-> "kNoError"]
    /\ \E k \in DOMAIN rpc.sent : rpc.sent[k].server = ThisEp(sn)

(* C6: the state of a session never moves backward in the order
   kConnectInProgress, kConnected, kDisconnectInProgress, kDisconnected;
   the disconnect response handler changes a state only from
   kDisconnectInProgress to kDisconnected; and the state of a session that
   is kDisconnected never changes. *)
C6_StateNeverBackward ==
  [][\A a \in DOMAIN rpc.sessions :
       LET old == rpc.sessions[a].state
           new == rpc'.sessions[a].state
       IN /\ StateRank(new) >= StateRank(old)
          /\ (SmHandling("kDisconnectResp") /\ new # old)
               => (old = "kDisconnectInProgress" /\ new = "kDisconnected")
          /\ old = "kDisconnected" => new = "kDisconnected"]_vars

\* A client session went through all four states.
C6_Witness ==
  \E a \in DOMAIN rpc.sessions :
    /\ rpc.sessions[a].state = "kDisconnected"
    /\ \E j, k \in DOMAIN rpc.cb_log :
         /\ j < k
         /\ rpc.cb_log[j].event = "kConnected"
         /\ rpc.cb_log[j].session_num = rpc.sessions[a].local_session_num
         /\ rpc.cb_log[k].event = "kDisconnected"
         /\ rpc.cb_log[k].session_num = rpc.sessions[a].local_session_num

-----------------------------------------------------------------------------
(* Observations on the TlsRegistry *)

\* The threads whose fetch-and-add in init has happened.
TlsGiven == {t \in TlsThreads : tls_pc[t] # "start"}

\* The tiny thread id thread t obtained.
TlsIdOf(t) == IF tls_pc[t] = "store" THEN tls_tmp[t] ELSE tiny_tid[t]

(* C7: the tiny thread ids obtained by the threads that have called init,
   in any interleaving, are pairwise distinct and are exactly 0..K-1 for
   the K threads that obtained one; the id of a thread never changes once
   obtained, and the id of a thread that has ended is not handed out
   again. *)
C7_TinyTidsDenseUniqueStable ==
  /\ [](/\ \A t, u \in TlsGiven : t # u => TlsIdOf(t) # TlsIdOf(u)
        /\ {TlsIdOf(t) : t \in TlsGiven} = 0..(Cardinality(TlsGiven) - 1))
  /\ [][\A t \in TlsGiven : TlsIdOf(t)' = TlsIdOf(t)]_vars

\* All threads have called init, the ids were not obtained in the order of
\* the stores, and a thread has ended.
C7_Witness ==
  /\ \A t \in TlsThreads : tls_pc[t] \in {"done", "exited"}
  /\ \E t \in TlsThreads : tls_pc[t] = "exited"
  /\ \E t, u \in TlsThreads : t < u /\ tiny_tid[t] > tiny_tid[u]

-----------------------------------------------------------------------------
(* Observations on Rpc construction and destruction *)

\* Thread t is inside a constructor, past the argument checks.
CtorPastChecks(t) == thr_pc[t] \in {"ctor_alloc", "ctor_register"}

\* Thread t is inside the teardown steps of a destructor.
InTeardown(t) ==
  thr_pc[t] \in {"dtor_huge_alloc", "dtor_transport", "dtor_unregister"}

\* Some thread is inside the event loop of Rpc o.
InsideEventLoop(o) == \E u \in AppThreads : thr_loop[u] = o

\* Thread t is at the checks of a destructor that must not tear down.
DtorMustExit(t) ==
  /\ thr_pc[t] = "dtor_check"
  /\ \/ objs[thr_obj[t]].creator_os_tid # t
     \/ kDatapathChecks /\ InsideEventLoop(thr_obj[t])

(* C8: no two live Rpcs are registered under the same RpcId, and a
   construction whose RpcId is registered does not get past the rpc_id
   check, which fails it with the invalid-rpc_id error, also when another
   construction with the same id runs concurrently. *)
C8_DuplicateRpcIdFails ==
  /\ \A o, q \in RpcObjs :
       (o # q /\ objs[o].status = "live" /\ objs[q].status = "live")
         => objs[o].rpc_id # objs[q].rpc_id
  /\ \A t \in AppThreads :
       CtorPastChecks(t) => ~rpc_id_exists(reg_hooks, objs[thr_obj[t]].rpc_id)

(* C9: a constructor call that fails, for any reason, leaves the hook
   table of the Nexus as it was, and so does one that crashes; an Rpc whose
   construction failed owns no entry of the table. *)
C9_FailedConstructionLeavesHooks ==
  /\ [][(Len(ctor_log') > Len(ctor_log)
         /\ ctor_log'[Len(ctor_log')].outcome # "created")
          => reg_hooks' = reg_hooks]_vars
  /\ [][exited' => reg_hooks' = reg_hooks]_vars
  /\ [](\A o \in RpcObjs :
          objs[o].status = "failed"
            => \A id \in RpcIdArgs : reg_hooks[id] # o)

\* A thread's construction failed in the hugepage initialization, and its
\* next construction with the same id succeeded and holds the hook.
C9_Witness ==
  \E j, k \in DOMAIN ctor_log :
    /\ j < k
    /\ ctor_log[j].thread = ctor_log[k].thread
    /\ ctor_log[j].rpc_id = ctor_log[k].rpc_id
    /\ ctor_log[j].outcome = "hugepage_error"
    /\ ctor_log[k].outcome = "created"
    /\ reg_hooks[ctor_log[k].rpc_id] = ctor_log[k].obj

(* C10: a destructor called from a thread other than the creator, or
   inside the event loop with datapath checks enabled, never reaches a
   teardown step: the calling thread does not leave the checks, no thread
   is in teardown of an Rpc it did not create or whose event loop is
   running under datapath checks, and once the process has terminated no
   allocator, transport or hook changes. *)
C10_DestructorChecks ==
  /\ [][\A t \in AppThreads :
          DtorMustExit(t) => thr_pc'[t] = thr_pc[t]]_vars
  /\ [](\A t \in AppThreads :
          InTeardown(t) =>
            /\ objs[thr_obj[t]].creator_os_tid = t
            /\ ~(kDatapathChecks /\ InsideEventLoop(thr_obj[t])))
  /\ [][exited => (objs' = objs /\ reg_hooks' = reg_hooks)]_vars

\* The process has terminated in a destructor called from the wrong thread;
\* the Rpc still has its allocator, its transport and its hook.
C10_Witness ==
  /\ exited
  /\ \E t \in AppThreads :
       /\ thr_pc[t] = "dtor_check"
       /\ objs[thr_obj[t]].creator_os_tid # t
       /\ objs[thr_obj[t]].huge_alloc
       /\ objs[thr_obj[t]].transport
       /\ reg_hooks[objs[thr_obj[t]].rpc_id] = thr_obj[t]
       /\ \A u \in AppThreads : u # t => thr_pc[u] # "dtor_check"

-----------------------------------------------------------------------------
(* Further observations on the background worker *)

\* Work item i was pushed before work item j: ids are given in the order in
\* which producers take the list's mutex in push.
PushedBefore(i, j) == i < j

(* C11: work items are invoked in the order in which they were pushed:
   within one drain, and also when two items of the worker fall into
   different drains, the item pushed first is invoked first. *)
C11_InvokedInPushOrder ==
  \A j, k \in DOMAIN inv_log :
    j < k => /\ PushedBefore(inv_log[j].id, inv_log[k].id)
             /\ inv_log[j].drain <= inv_log[k].drain

\* Two items were invoked in one drain and a third in a later drain.
C11_Witness ==
  \E j, k, l \in DOMAIN inv_log :
    /\ j < k /\ k < l
    /\ inv_log[j].drain = inv_log[k].drain
    /\ inv_log[k].drain < inv_log[l].drain

\* The worker is at a callback: the next step of the range-for invokes it.
AtCallback == bg_pc = "iter" /\ bg_it <= bg_end

\* The worker holds the mutex of its list.
WorkerHoldsLock == bg_pc \in {"iter", "bury", "clear", "unlock"}

(* C12: the worker's list is not locked by the worker while a request
   handler or continuation runs: the worker unlocks the list before it
   invokes the drained items, so the list is locked only during a push or
   during the drain. *)
C12_UnlockedDuringCallbacks ==
  AtCallback => ~(WorkerHoldsLock /\ bg_req_list.locked)

(* C13: the worker exits only after its kill switch has been set, and at
   the step in which it exits every work item pushed so far has been
   invoked: none is left in the list. *)
C13_ExitsDrained ==
  [][(bg_pc # "exit" /\ bg_pc' = "exit")
       => /\ bg_kill_switch
          /\ \A i \in ItemIds : Appended(i) => InvCount(i) = 1]_vars

-----------------------------------------------------------------------------
(* Observations on the server session with background handlers *)

\* The server session of the client is in session_vec.
QSessionPresent ==
  rpc.session_vec # <<>> /\ rpc.session_vec[1] # nullptr

(* C14: when the server Rpc handles the disconnect request of a client that
   has received all its responses, and the session is still in
   session_vec, every slot of the session is quiescent: its rx_msgbuf is
   null and its tx_msgbuf, if any, is fully sent; no assert of the handler
   fails. *)
C14_QuiescentAtDisconnect ==
  /\ (q_disc = "sent" /\ QSessionPresent) =>
       \A s \in SSlots :
         SSlotQuiescent(
           WithSlots(rpc).sessions[rpc.session_vec[1]].sslot_arr[s])
  /\ ~rpc.assert_failed

(* C15: when a disconnect response is handled for a session that is present,
   in state kDisconnectInProgress and in the management retry queue, the Rpc
   does, in this order: remove the session from the retry queue, set its
   state to kDisconnected, invoke the session management callback with
   (session number, kDisconnected, kNoError) exactly once if and only if
   sm_callbacks_disabled is false, bury the session. The session is buried
   also when the callbacks are disabled. *)
DisconnectRespOps(a) ==
  LET session == rpc.sessions[a] IN
    <<[op |-> "retryq_remove", arg |-> a], [op |-> "kDisconnected", arg |-> a]>>
    \o (IF ~session.sm_callbacks_disabled
        THEN <<[op |-> "callback", arg |-> session.local_session_num]>>
        ELSE <<>>)
    \o <<[op |-> "bury", arg |-> a]>>

DisconnectRespCallbacks(a) ==
  LET session == rpc.sessions[a] IN
    IF ~session.sm_callbacks_disabled
    THEN <<[session_num |-> session.local_session_num,
            event |-> "kDisconnected", err_type |-> "kNoError"]>>
    ELSE <<>>

C15_DisconnectRespOrder ==
  [][(/\ SmHandling("kDisconnectResp")
      /\ SmCur.client.session_num < Len(rpc.session_vec)
      /\ rpc.session_vec[SmCur.client.session_num + 1] # nullptr
      /\ LET a == rpc.session_vec[SmCur.client.session_num + 1] IN
           /\ rpc.sessions[a].state = "kDisconnectInProgress"
           /\ a \in rpc.mgmt_retryq)
     => LET sn == SmCur.client.session_num
            a == rpc.session_vec[sn + 1] IN
          /\ rpc'.op_log = rpc.op_log \o DisconnectRespOps(a)
          /\ rpc'.cb_log = rpc.cb_log \o DisconnectRespCallbacks(a)
          /\ rpc'.mgmt_retryq = rpc.mgmt_retryq \ {a}
          /\ rpc'.sessions[a].state = "kDisconnected"
          /\ rpc'.bury_log = Append(rpc.bury_log, a)
          /\ rpc'.session_vec[sn + 1] = nullptr
          /\ ~rpc'.assert_failed]_vars

\* A session whose callbacks are disabled was buried by the disconnect
\* response handler without a kDisconnected callback.
C15_Witness ==
  \E a \in DOMAIN rpc.sessions :
    /\ rpc.sessions[a].sm_callbacks_disabled
    /\ \E i \in DOMAIN rpc.op_log :
         /\ i + 2 <= Len(rpc.op_log)
         /\ rpc.op_log[i] = [op |-> "retryq_remove", arg |-> a]
         /\ rpc.op_log[i + 1] = [op |-> "kDisconnected", arg |-> a]
         /\ rpc.op_log[i + 2] = [op |-> "bury", arg |-> a]
    /\ \A c \in DOMAIN rpc.cb_log : rpc.cb_log[c].event # "kDisconnected"

(* C16: for a work item of kind request the worker calls the handler
   registered for the request type of the slot and then releases the slot's
   rx buffer; for a work item of kind continuation the worker calls the
   saved continuation with the saved tag and never releases the slot's rx
   buffer. *)
C16_ReqBuriedContUntouched ==
  /\ \A k \in DOMAIN inv_log :
       LET e == inv_log[k] IN
         /\ e.wi_type = "kReq" =>
              /\ e.call = [func |-> "req_func", arg |-> get_req_type(e.id)]
              /\ \/ e.id \in rx_buried
                 \/ k = Len(inv_log) /\ bg_pc = "bury"
         /\ e.wi_type = "kResp" =>
              /\ e.call = [func |-> "cont_func",
                           arg |-> clt_save_info_tag(e.id)]
              /\ e.id \notin rx_buried
  /\ \A i \in rx_buried : InvCount(i) = 1

\* A request and a continuation have both been run and the worker is back at
\* the head of its loop.
C16_Witness ==
  /\ bg_pc = "loop"
  /\ \E j, k \in DOMAIN inv_log :
       /\ inv_log[j].wi_type = "kReq"
       /\ inv_log[j].id \in rx_buried
       /\ inv_log[k].wi_type = "kResp"
       /\ inv_log[k].id \notin rx_buried

(* C17: the worker invokes work items only if the tiny thread id it got from
   init equals the index the Nexus gave it. On a mismatch the check made
   before the loop ends the process: no work item has been invoked, and
   nothing runs afterwards. *)
C17_MismatchTerminates ==
  /\ [](inv_log # <<>> => tiny_tid[BgThread] = bg_thread_index)
  /\ [](bg_pc \notin {"start", "terminated"}
          => tiny_tid[BgThread] = bg_thread_index)
  /\ [](bg_pc = "terminated" => inv_log = <<>>)
  /\ [][(/\ bg_pc = "start"
          /\ bg_pc' # "start"
          /\ tiny_tid[BgThread] # bg_thread_index) => bg_pc' = "terminated"]_vars
  /\ [][bg_pc = "terminated" => UNCHANGED vars]_vars

\* The worker got a tiny thread id other than its index while work items
\* were waiting in its list, and the process has ended.
C17_Witness ==
  /\ bg_pc = "terminated"
  /\ tiny_tid[BgThread] # bg_thread_index
  /\ bg_req_list.list # <<>>

(* C18: the management retry queue never contains a server session and never
   contains a session that has been buried, and the precondition of
   bury_session_st (a client session is not in the retry queue) holds at
   every call made by the disconnect handlers. *)
C18_RetryqClientsOnly ==
  /\ \A a \in rpc.mgmt_retryq :
       /\ rpc.sessions[a].role = "kClient"
       /\ ~rpc.sessions[a].deleted
  /\ \A k \in DOMAIN rpc.op_log :
       rpc.op_log[k].op # "bury_precondition_failed"

\* The disconnect response handler has buried a client session while another
\* session was in the retry queue.
C18_Witness ==
  /\ rpc.mgmt_retryq # {}
  /\ \E a \in DOMAIN rpc.sessions :
       /\ rpc.sessions[a].role = "kClient"
       /\ rpc.sessions[a].deleted
       /\ \E k \in DOMAIN rpc.op_log :
            /\ k < Len(rpc.op_log)
            /\ rpc.op_log[k] = [op |-> "retryq_remove", arg |-> a]
            /\ rpc.op_log[k + 1] = [op |-> "kDisconnected", arg |-> a]

(* C19: over any sequence of disconnect requests and responses, duplicates
   included, each session is buried at most once: the preallocated response
   buffer of each of its slots is released exactly once when it is buried
   and never otherwise, and the session is destroyed exactly when it is
   buried. On the server the disconnect response is sent before the session
   is buried. *)
BuryCount(a) ==
  Cardinality({k \in DOMAIN rpc.bury_log : rpc.bury_log[k] = a})

C19_BuriedOnce ==
  /\ \A a \in DOMAIN rpc.sessions :
       /\ BuryCount(a) <= 1
       /\ rpc.sessions[a].deleted <=> BuryCount(a) = 1
       /\ \A i \in SSlots :
            rpc.sessions[a].sslot_arr[i].pre_resp_freed = BuryCount(a)
  /\ \A k \in DOMAIN rpc.op_log :
       (/\ rpc.op_log[k].op = "bury"
        /\ rpc.sessions[rpc.op_log[k].arg].role = "kServer")
       => /\ k > 1
          /\ rpc.op_log[k - 1] =
               [op |-> "send",
                arg |-> rpc.sessions[rpc.op_log[k].arg].local_session_num]

\* A server session was buried and a duplicate of its disconnect request was
\* answered afterwards.
C19_Witness ==
  /\ rpc_pc # "abort"
  /\ \E a \in DOMAIN rpc.sessions :
       /\ rpc.sessions[a].role = "kServer"
       /\ BuryCount(a) = 1
       /\ \E k \in DOMAIN rpc.op_log :
            /\ k + 1 < Len(rpc.op_log)
            /\ rpc.op_log[k].op = "send"
            /\ rpc.op_log[k + 1] = [op |-> "bury", arg |-> a]
            /\ rpc.op_log[k + 2] = rpc.op_log[k]

(* C20: when the worker has read a non-zero size without the lock and then
   acquires the lock, the list is still non-empty, so the assertion after
   lock() holds in every interleaving with the producers; a worker that
   reads size zero goes back to the head of its loop without acquiring the
   lock. *)
C20_ProbeThenLockNonEmpty ==
  /\ [](bg_pc # "abort")
  /\ [](bg_pc = "lock" => bg_req_list.size > 0 /\ bg_req_list.list # <<>>)
  /\ [][(bg_pc = "lock" /\ bg_pc' # "lock")
          => /\ bg_pc' = "iter"
             /\ bg_req_list'.size > 0
             /\ bg_req_list'.list # <<>>]_vars
  /\ [][(bg_pc = "probe" /\ bg_pc' # "probe" /\ bg_req_list.size = 0)
          => /\ bg_pc' = "loop"
             /\ bg_req_list' = bg_req_list]_vars

\* The worker has acquired the lock for its second drain and found several
\* items pushed by the producers.
C20_Witness ==
  /\ bg_pc = "iter"
  /\ bg_it = 1
  /\ bg_ndrains = 2
  /\ bg_end >= 2
  /\ bg_req_list.size = bg_end

====
